---------------------------- MODULE Spec2Model ----------------------------
(***************************************************************************)
(* Cost-aware query execution and caching gateway of votegtr-analytics.    *)
(*                                                                         *)
(*   CostMonitor               src/src/cost_monitor.py                     *)
(*   QueryCache, QueryOptimizer src/src/query_optimizer.py                 *)
(*   OptimizedBigQueryManager  src/src/bigquery_optimized.py               *)
(*                                                                         *)
(* Units.  Byte counts are counted in units of 100 MB (10^8 bytes) and     *)
(* money in units of $0.0001, so that every threshold of CostThresholds    *)
(* is an integer: $5 per TB is 5 money units per byte unit.  Durations     *)
(* are counted in units of 300 seconds (the shortest TTL of                *)
(* CACHE_PATTERNS).  Python floats are modelled as exact numbers.          *)
(***************************************************************************)
EXTENDS Integers, Sequences, FiniteSets, TLC

VARIABLES
    \* CostMonitor fields (cost_monitor.py:58-72)
    thresholds,
    current_hour_queries,
    current_day_queries,
    current_day_cost,
    current_month_cost,
    emergency_stop,
    \* the local list `alerts` of the latest _check_limits, as handed to _send_alert
    alerts,
    \* the latest completed call: its name, arguments and what it returned or raised
    lastOp,
    \* QueryOptimizer.cache, a QueryCache (query_optimizer.py:28-31), and the clock
    \* datetime.now() reads
    cache,
    hit_count,
    miss_count,
    now,
    \* OptimizedBigQueryManager fields (bigquery_optimized.py:46-48) and the rows of
    \* the cost_tracking table it appends to
    queries_today,
    bytes_processed_today,
    cost_records,
    \* concurrent callers of one CostMonitor: where each caller is in update_usage,
    \* the value it has loaded, the cost it was called with; where the scheduler is
    \* in reset_daily_counters; and the history of calls (begun, returned, resets)
    pc,
    reg,
    arg,
    spc,
    hist

ledger == <<current_hour_queries, current_day_queries, current_day_cost,
            current_month_cost, emergency_stop>>

optimizerVars == <<cache, hit_count, miss_count, now>>

managerVars == <<queries_today, bytes_processed_today, cost_records>>

callerVars == <<pc, reg, arg, spc, hist>>

vars == <<thresholds, current_hour_queries, current_day_queries, current_day_cost,
          current_month_cost, emergency_stop, alerts, lastOp,
          cache, hit_count, miss_count, now,
          queries_today, bytes_processed_today, cost_records,
          pc, reg, arg, spc, hist>>

----------------------------------------------------------------------------
(* Bounds of the exploration *)

\* update_usage is explored while the query counters are below MaxQueries
MaxQueries == 4
\* ... and while the accumulated costs stay at or below MaxCost
MaxCost == 40
\* byte estimates handed to check_query_cost: MinBytes..MaxBytes
MaxBytes == 4

\* estimates around the default warning level (20 GB) and hard limit (200 GB)
LargeByteInputs == {200, 201, 2000, 2001}

ByteInputs == (-1)..MaxBytes \cup LargeByteInputs
CostInputs == {0, 5, 10, 25}

----------------------------------------------------------------------------
(* CostThresholds *)

\* $5.00 per TB = 5 money units per byte unit
PRICE_PER_TB == 5

\* the dataclass defaults, in model units
DefaultThresholds_wide_byte_limit ==
    [hourly_limit |-> 2500, daily_limit |-> 50000, monthly_limit |-> 1500000,
     query_cost_warning |-> 1000, query_cost_limit |-> 10000,
     bytes_per_query_limit |-> 2000,
     queries_per_hour_limit |-> 100, queries_per_day_limit |-> 1000]

DefaultThresholds ==
    [hourly_limit |-> 2500, daily_limit |-> 50000, monthly_limit |-> 1500000,
     query_cost_warning |-> 1000, query_cost_limit |-> 10000,
     bytes_per_query_limit |-> 1,
     queries_per_hour_limit |-> 100, queries_per_day_limit |-> 1000]

\* a CostThresholds instance with small limits, every one of which the bounded
\* exploration crosses; the per-query cost limit is the binding per-query limit
SmallThresholds ==
    [hourly_limit |-> 10, daily_limit |-> 20, monthly_limit |-> 30,
     query_cost_warning |-> 5, query_cost_limit |-> 10,
     bytes_per_query_limit |-> 3,
     queries_per_hour_limit |-> 2, queries_per_day_limit |-> 3]

\* as SmallThresholds, with the byte limit the binding per-query limit
ByteBoundThresholds ==
    [SmallThresholds EXCEPT !.bytes_per_query_limit = 1, !.query_cost_limit = 15]

CostThresholds == {DefaultThresholds, SmallThresholds, ByteBoundThresholds}

----------------------------------------------------------------------------
(* CostMonitor *)

NoResult ==
    [approved |-> FALSE, reason |-> "none", warning |-> FALSE,
     severity |-> "none", estimated_cost |-> 0]

Call(op, bytes, cost, result) ==
    [op |-> op, bytes |-> bytes, cost |-> cost, result |-> result]

estimated_cost(bytes_to_process) == bytes_to_process * PRICE_PER_TB

Rejected(reason, cost) ==
    [approved |-> FALSE, reason |-> reason, warning |-> FALSE,
     severity |-> "critical", estimated_cost |-> cost]

\* check_query_cost on a monitor whose thresholds are th and whose
\* current_day_cost is day_cost: the dict it returns
check_query_cost_ge_daily(th, day_cost, bytes_to_process) ==
    LET cost == estimated_cost(bytes_to_process)
    IN  IF cost > th.query_cost_limit
          THEN Rejected("query_cost_limit", cost)
        ELSE IF bytes_to_process > th.bytes_per_query_limit
          THEN Rejected("bytes_per_query_limit", cost)
        ELSE IF day_cost + cost >= th.daily_limit
          THEN Rejected("daily_limit", cost)
        ELSE IF cost > th.query_cost_warning
          THEN [approved |-> TRUE, reason |-> "none", warning |-> TRUE,
                severity |-> "warning", estimated_cost |-> cost]
        ELSE [approved |-> TRUE, reason |-> "none", warning |-> FALSE,
              severity |-> "info", estimated_cost |-> cost]

check_query_cost_on(th, day_cost, bytes_to_process) ==
    LET cost == estimated_cost(bytes_to_process)
    IN  IF cost > th.query_cost_limit
          THEN Rejected("query_cost_limit", cost)
        ELSE IF bytes_to_process > th.bytes_per_query_limit
          THEN Rejected("bytes_per_query_limit", cost)
        ELSE IF day_cost + cost > th.daily_limit
          THEN Rejected("daily_limit", cost)
        ELSE IF cost > th.query_cost_warning
          THEN [approved |-> TRUE, reason |-> "none", warning |-> TRUE,
                severity |-> "warning", estimated_cost |-> cost]
        ELSE [approved |-> TRUE, reason |-> "none", warning |-> FALSE,
              severity |-> "info", estimated_cost |-> cost]

check_query_cost(bytes_to_process) ==
    check_query_cost_on(thresholds, current_day_cost, bytes_to_process)

CheckQueryCost_stops_on_rejection ==
    \E b \in ByteInputs :
        /\ lastOp' = Call("check_query_cost", b, 0, check_query_cost(b))
        /\ emergency_stop' = (emergency_stop \/ ~check_query_cost(b).approved)
        /\ UNCHANGED <<thresholds, current_hour_queries, current_day_queries,
                       current_day_cost, current_month_cost, alerts,
                       optimizerVars, managerVars, callerVars>>

CheckQueryCost ==
    \E b \in ByteInputs :
        /\ lastOp' = Call("check_query_cost", b, 0, check_query_cost(b))
        /\ UNCHANGED <<thresholds, ledger, alerts, optimizerVars, managerVars, callerVars>>

Alert(type, severity) == [type |-> type, severity |-> severity]

\* _check_limits: the alerts it collects, from the counters it is given
check_limits_alerts(hq, dq, dc, mc) ==
    (IF hq > thresholds.queries_per_hour_limit
       THEN <<Alert("hourly_query_limit", "warning")>> ELSE <<>>)
    \o (IF dq > thresholds.queries_per_day_limit
       THEN <<Alert("daily_query_limit", "critical")>> ELSE <<>>)
    \o (IF dc > thresholds.daily_limit
       THEN <<Alert("daily_cost_limit", "emergency")>> ELSE <<>>)
    \o (IF mc > thresholds.monthly_limit
       THEN <<Alert("monthly_cost_limit", "emergency")>> ELSE <<>>)

check_limits_stop_no_monthly(stop, dq, dc, mc) ==
    \/ stop
    \/ dq > thresholds.queries_per_day_limit
    \/ dc > thresholds.daily_limit

\* _check_limits: the value it leaves in emergency_stop
check_limits_stop(stop, dq, dc, mc) ==
    \/ stop
    \/ dq > thresholds.queries_per_day_limit
    \/ dc > thresholds.daily_limit
    \/ mc > thresholds.monthly_limit

UpdateUsage_skips_month_cost ==
    \E b \in 0..MaxBytes, cost \in CostInputs :
        /\ current_hour_queries < MaxQueries
        /\ current_day_queries < MaxQueries
        /\ current_day_cost + cost <= MaxCost
        /\ current_month_cost + cost <= MaxCost
        /\ current_hour_queries' = current_hour_queries + 1
        /\ current_day_queries' = current_day_queries + 1
        /\ current_day_cost' = current_day_cost + cost
        /\ current_month_cost' = current_month_cost
        /\ alerts' = check_limits_alerts(current_hour_queries', current_day_queries',
                                         current_day_cost', current_month_cost')
        /\ emergency_stop' = check_limits_stop(emergency_stop, current_day_queries',
                                               current_day_cost', current_month_cost')
        /\ lastOp' = Call("update_usage", b, cost, NoResult)
        /\ UNCHANGED <<thresholds, optimizerVars, managerVars, callerVars>>

UpdateUsage_assigns_day_cost ==
    \E b \in 0..MaxBytes, cost \in CostInputs :
        /\ current_hour_queries < MaxQueries
        /\ current_day_queries < MaxQueries
        /\ current_day_cost + cost <= MaxCost
        /\ current_month_cost + cost <= MaxCost
        /\ current_hour_queries' = current_hour_queries + 1
        /\ current_day_queries' = current_day_queries + 1
        /\ current_day_cost' = cost
        /\ current_month_cost' = current_month_cost + cost
        /\ alerts' = check_limits_alerts(current_hour_queries', current_day_queries',
                                         current_day_cost', current_month_cost')
        /\ emergency_stop' = check_limits_stop(emergency_stop, current_day_queries',
                                               current_day_cost', current_month_cost')
        /\ lastOp' = Call("update_usage", b, cost, NoResult)
        /\ UNCHANGED <<thresholds, optimizerVars, managerVars, callerVars>>

\* update_usage by one caller at a time: the four increments, then _check_limits
UpdateUsage ==
    \E b \in 0..MaxBytes, cost \in CostInputs :
        /\ current_hour_queries < MaxQueries
        /\ current_day_queries < MaxQueries
        /\ current_day_cost + cost <= MaxCost
        /\ current_month_cost + cost <= MaxCost
        /\ current_hour_queries' = current_hour_queries + 1
        /\ current_day_queries' = current_day_queries + 1
        /\ current_day_cost' = current_day_cost + cost
        /\ current_month_cost' = current_month_cost + cost
        /\ alerts' = check_limits_alerts(current_hour_queries', current_day_queries',
                                         current_day_cost', current_month_cost')
        /\ emergency_stop' = check_limits_stop(emergency_stop, current_day_queries',
                                               current_day_cost', current_month_cost')
        /\ lastOp' = Call("update_usage", b, cost, NoResult)
        /\ UNCHANGED <<thresholds, optimizerVars, managerVars, callerVars>>

reset_hourly_counters_zeroes_month ==
    /\ current_hour_queries' = 0
    /\ current_month_cost' = 0
    /\ lastOp' = Call("reset_hourly_counters", 0, 0, NoResult)
    /\ UNCHANGED <<thresholds, current_day_queries, current_day_cost,
                   emergency_stop, alerts, optimizerVars, managerVars, callerVars>>

reset_hourly_counters ==
    /\ current_hour_queries' = 0
    /\ lastOp' = Call("reset_hourly_counters", 0, 0, NoResult)
    /\ UNCHANGED <<thresholds, current_day_queries, current_day_cost,
                   current_month_cost, emergency_stop, alerts,
                   optimizerVars, managerVars, callerVars>>

reset_daily_counters ==
    /\ current_day_queries' = 0
    /\ current_day_cost' = 0
    /\ emergency_stop' = FALSE
    /\ lastOp' = Call("reset_daily_counters", 0, 0, NoResult)
    /\ UNCHANGED <<thresholds, current_hour_queries, current_month_cost, alerts,
                   optimizerVars, managerVars, callerVars>>

reset_monthly_counters_clears_stop ==
    /\ current_month_cost' = 0
    /\ emergency_stop' = FALSE
    /\ lastOp' = Call("reset_monthly_counters", 0, 0, NoResult)
    /\ UNCHANGED <<thresholds, current_hour_queries, current_day_queries,
                   current_day_cost, alerts, optimizerVars, managerVars, callerVars>>

reset_monthly_counters ==
    /\ current_month_cost' = 0
    /\ lastOp' = Call("reset_monthly_counters", 0, 0, NoResult)
    /\ UNCHANGED <<thresholds, current_hour_queries, current_day_queries,
                   current_day_cost, emergency_stop, alerts,
                   optimizerVars, managerVars, callerVars>>

----------------------------------------------------------------------------
(* Construction of the other components *)

\* QueryCache.__init__
InitOptimizer ==
    /\ cache = <<>>
    /\ hit_count = 0
    /\ miss_count = 0
    /\ now = 0

\* OptimizedBigQueryManager.__init__ (cost tracking)
InitManager ==
    /\ queries_today = 0
    /\ bytes_processed_today = 0
    /\ cost_records = <<>>

\* the callers of a shared CostMonitor
Threads == {"t1", "t2"}

Idle == [phase |-> "idle", i |-> 0]

NoReset == [happened |-> FALSE, begun |-> 0, returned |-> 0]

\* no caller is inside a call
InitCallers ==
    /\ pc = [t \in Threads |-> Idle]
    /\ reg = [t \in Threads |-> 0]
    /\ arg = [t \in Threads |-> 0]
    /\ spc = 0
    /\ hist = [begun |-> 0, returned |-> 0, cost_total |-> 0, overlap |-> FALSE,
               resets |-> 0, hour_reset |-> NoReset]

----------------------------------------------------------------------------
(* One CostMonitor, called by one caller at a time *)

Init ==
    /\ thresholds \in CostThresholds
    /\ current_hour_queries = 0
    /\ current_day_queries = 0
    /\ current_day_cost = 0
    /\ current_month_cost = 0
    /\ emergency_stop = FALSE
    /\ alerts = <<>>
    /\ lastOp = Call("init", 0, 0, NoResult)
    /\ InitOptimizer
    /\ InitManager
    /\ InitCallers

Next ==
    \/ CheckQueryCost
    \/ UpdateUsage
    \/ reset_hourly_counters
    \/ reset_daily_counters
    \/ reset_monthly_counters

Spec == Init /\ [][Next]_vars

----------------------------------------------------------------------------
(* QueryCache *)

\* a Python value: its type and its text
Py(type, text) == [type |-> type, text |-> text]

\* query texts, and the parameter maps callers pass: None, {"a": 1} and a map
\* holding a value json.dumps cannot serialize (a date); a map is its items in
\* insertion order
Queries == {"q1"}
P_None == [is_none |-> TRUE, items |-> <<>>]
P_A == [is_none |-> FALSE, items |-> << <<Py("str", "a"), Py("int", "1")>> >>]
P_Date == [is_none |-> FALSE, items |-> << <<Py("str", "d"), Py("date", "2024-01-01")>> >>]
ParamMaps == {P_None, P_A, P_Date}

\* the types of values json.dumps raises TypeError for
Unserializable == {"date"}

\* the payloads an executor returns: rows, an empty list, None
Payloads == {"rows", "empty", "None"}

\* the clock advances while now < MaxTime
MaxTime == 1
\* lookups are explored while hit_count + miss_count < MaxLookups
MaxLookups == 2

\* params or {}
or_empty(params) == IF params.is_none \/ params.items = <<>> THEN <<>> ELSE params.items

Serializable(params) ==
    \A i \in 1..Len(or_empty(params)) : or_empty(params)[i][2].type \notin Unserializable

\* the order sort_keys puts the parameter names of the explored maps in
KeyOrder == <<"1", "a", "b", "d", "ids">>

Rank(name) == CHOOSE i \in 1..Len(KeyOrder) : KeyOrder[i] = name.text

\* sort_keys=True: the items in the order of their names
sort_keys(items) ==
    LET n == Len(items)
        perm == CHOOSE f \in [1..n -> 1..n] :
                    /\ \A i, j \in 1..n : i # j => f[i] # f[j]
                    /\ \A i, j \in 1..n :
                           i < j => Rank(items[f[i]][1]) <= Rank(items[f[j]][1])
    IN  [i \in 1..n |-> items[perm[i]]]

\* the JSON text of a name: str, int, float, bool and None names are all written
\* as JSON strings
json_key(name) == "\"" \o name.text \o "\""

\* the JSON text of a value: a tuple is written as a list
json_value(value) ==
    CASE value.type = "str" -> "\"" \o value.text \o "\""
      [] value.type \in {"list", "tuple"} -> "[" \o value.text \o "]"
      [] OTHER -> value.text

RECURSIVE json_items(_)
json_items(items) ==
    IF items = <<>> THEN ""
    ELSE json_key(Head(items)[1]) \o ": " \o json_value(Head(items)[2])
             \o (IF Len(items) > 1 THEN ", " ELSE "") \o json_items(Tail(items))

\* json.dumps(params or {}, sort_keys=True), defined when Serializable(params)
json_dumps(params) == "{" \o json_items(sort_keys(or_empty(params))) \o "}"

\* get_cache_key (defined when Serializable(params)): the digest of the query text
\* followed by the serialized parameters; the digest is taken to be injective, and
\* a key is written as the text that is digested
get_cache_key(query, params) == query \o json_dumps(params)

Remove(c, key) == [k \in DOMAIN c \ {key} |-> c[k]]

Put(c, key, entry) == [k \in DOMAIN c \cup {key} |-> IF k = key THEN entry ELSE c[k]]

\* QueryCache.default_ttl: 3600 s
DEFAULT_TTL == 12

cache_get_hit_at_expiry(c, t, key) ==
    IF key \in DOMAIN c
      THEN IF t <= c[key].expires
             THEN [hit |-> TRUE, data |-> c[key].data, cache |-> c]
             ELSE [hit |-> FALSE, data |-> "None", cache |-> Remove(c, key)]
      ELSE [hit |-> FALSE, data |-> "None", cache |-> c]

\* QueryCache.get on the dict c at time t: what it returns, whether it counted a
\* hit, and the dict it leaves
cache_get(c, t, key) ==
    IF key \in DOMAIN c
      THEN IF t < c[key].expires
             THEN [hit |-> TRUE, data |-> c[key].data, cache |-> c]
             ELSE [hit |-> FALSE, data |-> "None", cache |-> Remove(c, key)]
      ELSE [hit |-> FALSE, data |-> "None", cache |-> c]

\* ttl or self.default_ttl; ttl is <<>> for None (the default of the signature)
\* and <<n>> for the integer n
ttl_or_default(ttl) == IF ttl = <<>> \/ ttl[1] = 0 THEN DEFAULT_TTL ELSE ttl[1]

\* QueryCache.set on the dict c at time t: the dict it leaves
cache_set(c, t, key, query, data, ttl) ==
    Put(c, key, [data |-> data, expires |-> t + ttl_or_default(ttl),
                 query |-> query, cached_at |-> t])

clear_expired_keeps_at_expiry(c, t) ==
    [k \in {x \in DOMAIN c : ~(t > c[x].expires)} |-> c[k]]

\* QueryCache.clear_expired on the dict c at time t: the dict it leaves
clear_expired(c, t) == [k \in {x \in DOMAIN c : ~(t >= c[x].expires)} |-> c[k]]

\* time passes
Tick ==
    /\ now < MaxTime
    /\ now' = now + 1
    /\ UNCHANGED <<thresholds, ledger, alerts, lastOp, cache, hit_count, miss_count,
                   managerVars, callerVars>>

----------------------------------------------------------------------------
(* QueryOptimizer.get_cached_or_execute *)

\* CACHE_PATTERNS, in units of 300 s
CACHE_PATTERNS ==
    [dashboard |-> 12, report |-> 24, historical |-> 288, realtime |-> 1, funnel |-> 6]

\* self.CACHE_PATTERNS.get(query_type, 3600)
cache_ttl(query_type) ==
    IF query_type \in DOMAIN CACHE_PATTERNS THEN CACHE_PATTERNS[query_type] ELSE 12

\* the query types explored: one that expires within MaxTime, and the default
QueryTypes == {"realtime", "general"}

\* what the warehouse dry run would report for a request: at the byte limit of
\* the default thresholds, and above it
EstimateInputs == {1, 2}

\* the executor raises, or returns a payload
ExecutorOutcomes == {"fail"} \cup Payloads

\* a call of the cache, the optimizer or the manager: its arguments (ttl is <<>>
\* when none is passed), whether the dry run was made and how it ended, whether the
\* executor ran and how it ended, and what the call raised or returned
Request(op, query, params, bytes) ==
    [op |-> op, query |-> query, params |-> params, bytes |-> bytes, ttl |-> <<>>,
     dry_run |-> "none", executed |-> FALSE, outcome |-> "none", raised |-> "none",
     returned |-> "nothing"]

\* the dict get_cached_or_execute leaves after the executor's outcome: it is set
\* only when the executor returned
cache_after_execute_always_set(c, t, key, query, outcome, ttl) ==
    cache_set(c, t, key, query, IF outcome = "fail" THEN "None" ELSE outcome, ttl)

cache_after_execute(c, t, key, query, outcome, ttl) ==
    IF outcome = "fail" THEN c ELSE cache_set(c, t, key, query, outcome, ttl)

GetCachedOrExecute ==
    \E query \in Queries, query_type \in QueryTypes, params \in ParamMaps,
       est \in EstimateInputs, outcome \in ExecutorOutcomes :
        LET req == Request("get_cached_or_execute", query, params, 0)
        IN  /\ hit_count + miss_count < MaxLookups
            /\ IF ~Serializable(params)
                 THEN \* self.cache.get raises in get_cache_key
                      /\ lastOp' = [req EXCEPT !.raised = "TypeError"]
                      /\ UNCHANGED optimizerVars
                 ELSE LET key == get_cache_key(query, params)
                          got == cache_get(cache, now, key)
                      IN  /\ hit_count' = IF got.hit THEN hit_count + 1 ELSE hit_count
                          /\ miss_count' = IF got.hit THEN miss_count ELSE miss_count + 1
                          /\ UNCHANGED now
                          /\ IF got.data # "None"
                               THEN \* cached_result is not None
                                    /\ cache' = got.cache
                                    /\ lastOp' = [req EXCEPT !.returned = got.data]
                               ELSE \* executor_func(optimized_query), then cache.set
                                    /\ cache' = cache_after_execute(got.cache, now, key,
                                           query, outcome, <<cache_ttl(query_type)>>)
                                    /\ lastOp' =
                                         [req EXCEPT
                                            !.executed = TRUE,
                                            !.bytes = est,
                                            !.outcome = outcome,
                                            !.raised = IF outcome = "fail"
                                                         THEN "ExecutorError" ELSE "none",
                                            !.returned = IF outcome = "fail"
                                                           THEN "nothing" ELSE outcome]
            /\ UNCHANGED <<thresholds, ledger, alerts, managerVars, callerVars>>

----------------------------------------------------------------------------
(* OptimizedBigQueryManager.execute_query_with_cost_control *)

\* 100 MB
MAX_BYTES_PER_QUERY == 1
MAX_QUERIES_PER_DAY == 1000
\* $5 per TB
COST_PER_TB == 5

\* calls are explored for the first MaxExecs values of queries_today and for its
\* last MaxExecs values before MAX_QUERIES_PER_DAY, and at the limit itself
MaxExecs == 1

Explored(q) == q < MaxExecs \/ q >= MAX_QUERIES_PER_DAY - MaxExecs

\* the query_type callers pass: its default, or a category of their own
ManagerQueryTypes == {"general", "dashboard", "report"}

\* the dry run of estimate_query_cost raises, or reports total_bytes_processed
DryRunOutcomes ==
    {[error |-> TRUE, bytes |-> 0]} \cup {[error |-> FALSE, bytes |-> b] : b \in EstimateInputs}

\* estimate_query_cost: the dict it returns
estimate_query_cost(dry) ==
    IF dry.error
      THEN [error |-> TRUE, bytes_processed |-> 0, estimated_cost |-> 0,
            cost_warning |-> FALSE, within_limit |-> FALSE]
      ELSE [error |-> FALSE, bytes_processed |-> dry.bytes,
            estimated_cost |-> dry.bytes * COST_PER_TB,
            cost_warning |-> dry.bytes * COST_PER_TB > 1000,
            within_limit |-> dry.bytes <= MAX_BYTES_PER_QUERY]

\* the job raises, or ends with total_bytes_billed None (-> 0), 0 or up to
\* maximum_bytes_billed
RunOutcomes == {"fail", "billed_none", "billed_0", "billed_1"}

\* query_job.total_bytes_billed or 0
bytes_billed(run) == IF run = "billed_1" THEN 1 ELSE 0

\* _track_query_cost appends the row, or its load job fails (the exception is
\* swallowed), or the temporary file cannot be written (the finally clause then
\* raises on the unbound temp_file)
TrackOutcomes == {"ok", "load_failed", "tempfile_failed"}

\* the cost_tracking rows after _track_query_cost
track_query_cost(rows, query_type, run, track) ==
    IF track = "ok"
      THEN Append(rows, [query_type |-> query_type, bytes_billed |-> bytes_billed(run),
                         estimated_cost |-> bytes_billed(run) * COST_PER_TB])
      ELSE rows

counters_after_job_counts_failures(q, b, run, track) ==
    <<q + 1, b + bytes_billed(run)>>

\* the counters after the body of the try block, whose job ended as run
counters_after_job(q, b, run, track) ==
    IF run = "fail" \/ track = "tempfile_failed" THEN <<q, b>> ELSE <<q + 1, b + bytes_billed(run)>>

ExecuteQueryWithCostControl ==
    \E query \in Queries, query_type \in ManagerQueryTypes, dry \in DryRunOutcomes,
       run \in RunOutcomes, track \in TrackOutcomes :
        LET req == Request("execute_query_with_cost_control", query, P_None, 0)
            cost_estimate == estimate_query_cost(dry)
            after == counters_after_job(queries_today, bytes_processed_today, run, track)
        IN  /\ Explored(queries_today)
            /\ IF queries_today >= MAX_QUERIES_PER_DAY
                 THEN /\ lastOp' = [req EXCEPT !.raised = "DailyQueryLimit"]
                      /\ UNCHANGED managerVars
               ELSE IF ~cost_estimate.within_limit
                 THEN /\ lastOp' = [req EXCEPT !.raised = "ByteLimit",
                                               !.bytes = cost_estimate.bytes_processed,
                                               !.dry_run = IF dry.error THEN "error"
                                                           ELSE "ok"]
                      /\ UNCHANGED managerVars
               ELSE /\ queries_today' = after[1]
                    /\ bytes_processed_today' = after[2]
                    /\ cost_records' =
                         IF run = "fail" THEN cost_records
                         ELSE track_query_cost(cost_records, query_type, run, track)
                    /\ lastOp' =
                         [req EXCEPT
                            !.bytes = cost_estimate.bytes_processed,
                            !.dry_run = "ok",
                            !.executed = TRUE,
                            !.outcome = IF run = "fail" THEN "fail" ELSE "rows",
                            !.raised = IF run = "fail" THEN "ExecutorError"
                                       ELSE IF track = "tempfile_failed"
                                         THEN "UnboundLocalError" ELSE "none",
                            !.returned = IF run = "fail" \/ track = "tempfile_failed"
                                           THEN "nothing" ELSE "rows"]
            /\ UNCHANGED <<thresholds, ledger, alerts, optimizerVars, callerVars>>

\* estimate_query_cost called on its own: the dry run and the dict returned
EstimateQueryCost ==
    \E query \in Queries, dry \in DryRunOutcomes :
        LET cost_estimate == estimate_query_cost(dry)
        IN  /\ lastOp' = [Request("estimate_query_cost", query, P_None,
                                  cost_estimate.bytes_processed)
                             EXCEPT !.dry_run = IF dry.error THEN "error" ELSE "ok",
                                    !.returned = IF cost_estimate.within_limit
                                                   THEN "within_limit" ELSE "over_limit"]
            /\ UNCHANGED <<thresholds, ledger, alerts, optimizerVars, managerVars,
                           callerVars>>

\* one OptimizedBigQueryManager through a day: fresh, or after the day's earlier
\* queries, of which up to MaxExecs billed 100 MB and none had its cost row loaded
InitDay ==
    /\ thresholds = DefaultThresholds
    /\ current_hour_queries = 0
    /\ current_day_queries = 0
    /\ current_day_cost = 0
    /\ current_month_cost = 0
    /\ emergency_stop = FALSE
    /\ alerts = <<>>
    /\ lastOp = Request("init", "q1", P_None, 0)
    /\ InitOptimizer
    /\ \/ queries_today = 0 /\ bytes_processed_today = 0
       \/ /\ queries_today = MAX_QUERIES_PER_DAY - MaxExecs
          /\ bytes_processed_today \in 0..MaxExecs
    /\ cost_records = <<>>
    /\ InitCallers

NextDay ==
    \/ ExecuteQueryWithCostControl
    \/ EstimateQueryCost

SpecDay == InitDay /\ [][NextDay]_vars

----------------------------------------------------------------------------
(* The coordinator: one QueryOptimizer and one OptimizedBigQueryManager beside a
   CostMonitor as constructed, called by one caller at a time *)

InitCoord ==
    /\ thresholds = DefaultThresholds
    /\ current_hour_queries = 0
    /\ current_day_queries = 0
    /\ current_day_cost = 0
    /\ current_month_cost = 0
    /\ emergency_stop = FALSE
    /\ alerts = <<>>
    /\ lastOp = Request("init", "q1", P_None, 0)
    /\ InitOptimizer
    /\ InitManager
    /\ InitCallers

NextCoord ==
    \/ GetCachedOrExecute
    \/ ExecuteQueryWithCostControl
    \/ Tick

SpecCoord == InitCoord /\ [][NextCoord]_vars

----------------------------------------------------------------------------
(* One QueryCache, called directly by one caller at a time *)

\* the ttl arguments callers pass to set: none, 0, 300 s, 3600 s
TtlInputs == {<<>>, <<0>>, <<1>>, <<12>>}

CacheGet ==
    \E query \in Queries, params \in ParamMaps :
        LET req == Request("get", query, params, 0)
        IN  /\ hit_count + miss_count < MaxLookups
            /\ IF ~Serializable(params)
                 THEN /\ lastOp' = [req EXCEPT !.raised = "TypeError"]
                      /\ UNCHANGED optimizerVars
                 ELSE LET got == cache_get(cache, now, get_cache_key(query, params))
                      IN  /\ hit_count' = IF got.hit THEN hit_count + 1 ELSE hit_count
                          /\ miss_count' = IF got.hit THEN miss_count ELSE miss_count + 1
                          /\ cache' = got.cache
                          /\ lastOp' = [req EXCEPT !.returned = got.data,
                                                   !.outcome =
                                                       IF got.hit THEN "hit"
                                                       ELSE IF got.cache # cache
                                                              THEN "expired"
                                                              ELSE "absent"]
                          /\ UNCHANGED now
            /\ UNCHANGED <<thresholds, ledger, alerts, managerVars, callerVars>>

CacheSet ==
    \E query \in Queries, params \in ParamMaps, data \in Payloads, ttl \in TtlInputs :
        LET req == [Request("set", query, params, 0) EXCEPT !.ttl = ttl]
        IN  /\ IF ~Serializable(params)
                 THEN /\ lastOp' = [req EXCEPT !.raised = "TypeError"]
                      /\ UNCHANGED cache
                 ELSE /\ cache' = cache_set(cache, now, get_cache_key(query, params),
                                            query, data, ttl)
                      /\ lastOp' = [req EXCEPT !.outcome = data]
            /\ UNCHANGED <<thresholds, ledger, alerts, hit_count, miss_count, now,
                           managerVars, callerVars>>

ClearExpired ==
    /\ cache' = clear_expired(cache, now)
    /\ lastOp' = [Request("clear_expired", "q1", P_None, 0) EXCEPT
                      !.outcome = IF clear_expired(cache, now) # cache
                                    THEN "cleared" ELSE "none"]
    /\ UNCHANGED <<thresholds, ledger, alerts, hit_count, miss_count, now, managerVars,
                   callerVars>>

NextCache ==
    \/ CacheGet
    \/ CacheSet
    \/ ClearExpired
    \/ Tick

SpecCache == InitCoord /\ [][NextCache]_vars

----------------------------------------------------------------------------
(* QueryCache.get_cache_key, applied to two requests *)

KeyQueries == {"q1", "q2", "q1{}"}

P_Empty == [is_none |-> FALSE, items |-> <<>>]
P_AStr == [is_none |-> FALSE, items |-> << <<Py("str", "a"), Py("str", "1")>> >>]
P_AB ==
    [is_none |-> FALSE,
     items |-> << <<Py("str", "a"), Py("int", "1")>>, <<Py("str", "b"), Py("int", "2")>> >>]
P_BA ==
    [is_none |-> FALSE,
     items |-> << <<Py("str", "b"), Py("int", "2")>>, <<Py("str", "a"), Py("int", "1")>> >>]
P_Int1 == [is_none |-> FALSE, items |-> << <<Py("int", "1"), Py("str", "x")>> >>]
P_Str1 == [is_none |-> FALSE, items |-> << <<Py("str", "1"), Py("str", "x")>> >>]
P_Tuple == [is_none |-> FALSE, items |-> << <<Py("str", "ids"), Py("tuple", "1, 2")>> >>]
P_List == [is_none |-> FALSE, items |-> << <<Py("str", "ids"), Py("list", "1, 2")>> >>]

KeyParamMaps ==
    {P_None, P_Empty, P_A, P_AStr, P_AB, P_BA, P_Int1, P_Str1, P_Tuple, P_List, P_Date}

\* two calls of get_cache_key: each returns a key or raises
KeyPair(query, params, other_query, other_params) ==
    [op |-> "get_cache_key", query |-> query, params |-> params,
     other_query |-> other_query, other_params |-> other_params,
     raised |-> IF Serializable(params) /\ Serializable(other_params)
                  THEN "none" ELSE "TypeError",
     key |-> IF Serializable(params) THEN get_cache_key(query, params) ELSE "",
     other_key |-> IF Serializable(other_params)
                     THEN get_cache_key(other_query, other_params) ELSE ""]

\* get_cache_key applied to the two requests in hand
GetCacheKey ==
    /\ lastOp.op = "init"
    /\ lastOp' = KeyPair(lastOp.query, lastOp.params,
                         lastOp.other_query, lastOp.other_params)
    /\ UNCHANGED <<thresholds, ledger, alerts, optimizerVars, managerVars, callerVars>>

InitKey ==
    /\ thresholds = DefaultThresholds
    /\ current_hour_queries = 0
    /\ current_day_queries = 0
    /\ current_day_cost = 0
    /\ current_month_cost = 0
    /\ emergency_stop = FALSE
    /\ alerts = <<>>
    /\ \E query \in KeyQueries, params \in KeyParamMaps,
          other_query \in KeyQueries, other_params \in KeyParamMaps :
           lastOp = [op |-> "init", query |-> query, params |-> params,
                     other_query |-> other_query, other_params |-> other_params,
                     raised |-> "none", key |-> "", other_key |-> ""]
    /\ InitOptimizer
    /\ InitManager
    /\ InitCallers

NextKey == GetCacheKey

SpecKey == InitKey /\ [][NextKey]_vars

----------------------------------------------------------------------------
(* One CostMonitor shared by concurrent callers.  CostMonitor holds no lock:
   each `self.x += v` of update_usage is a load of the attribute followed by a
   store, and another caller or the scheduler may run between the two. *)

\* each caller makes at most MaxConcCalls calls of update_usage
MaxConcCalls == 1

\* the cost arguments of the concurrent calls
ConcCosts == {5, 10}

\* the i-th attribute update_usage increments, in its order
Counter(i) ==
    CASE i = 1 -> current_hour_queries
      [] i = 2 -> current_day_queries
      [] i = 3 -> current_day_cost
      [] i = 4 -> current_month_cost

\* what the i-th increment adds
Increment(i, cost) == IF i <= 2 THEN 1 ELSE cost

\* update_usage is called
BeginUpdate(t) ==
    \E cost \in ConcCosts :
        /\ pc[t] = Idle
        /\ hist.begun < MaxConcCalls * Cardinality(Threads)
        /\ pc' = [pc EXCEPT ![t] = [phase |-> "load", i |-> 1]]
        /\ arg' = [arg EXCEPT ![t] = cost]
        /\ hist' = [hist EXCEPT !.begun = @ + 1,
                                !.cost_total = @ + cost,
                                !.overlap = @ \/ \E u \in Threads \ {t} : pc[u] # Idle]
        /\ UNCHANGED <<thresholds, ledger, alerts, lastOp, optimizerVars, managerVars,
                       reg, spc>>

\* the load of `self.x += v`
Load(t) ==
    /\ pc[t].phase = "load"
    /\ reg' = [reg EXCEPT ![t] = Counter(pc[t].i)]
    /\ pc' = [pc EXCEPT ![t].phase = "store"]
    /\ UNCHANGED <<thresholds, ledger, alerts, lastOp, optimizerVars, managerVars,
                   arg, spc, hist>>

\* the store of `self.x += v`
Store(t) ==
    LET i == pc[t].i
        v == reg[t] + Increment(i, arg[t])
    IN  /\ pc[t].phase = "store"
        /\ current_hour_queries' = IF i = 1 THEN v ELSE current_hour_queries
        /\ current_day_queries' = IF i = 2 THEN v ELSE current_day_queries
        /\ current_day_cost' = IF i = 3 THEN v ELSE current_day_cost
        /\ current_month_cost' = IF i = 4 THEN v ELSE current_month_cost
        /\ pc' = [pc EXCEPT ![t] = IF i < 4 THEN [phase |-> "load", i |-> i + 1]
                                   ELSE [phase |-> "check", i |-> 0]]
        /\ UNCHANGED <<thresholds, emergency_stop, alerts, lastOp, optimizerVars,
                       managerVars, reg, arg, spc, hist>>

\* self._check_limits(), and the return of update_usage
CheckLimits(t) ==
    /\ pc[t].phase = "check"
    /\ alerts' = check_limits_alerts(current_hour_queries, current_day_queries,
                                     current_day_cost, current_month_cost)
    /\ emergency_stop' = check_limits_stop(emergency_stop, current_day_queries,
                                           current_day_cost, current_month_cost)
    /\ pc' = [pc EXCEPT ![t] = Idle]
    /\ hist' = [hist EXCEPT !.returned = @ + 1]
    /\ UNCHANGED <<thresholds, current_hour_queries, current_day_queries,
                   current_day_cost, current_month_cost, lastOp, optimizerVars,
                   managerVars, reg, arg, spc>>

\* the scheduler calls reset_hourly_counters: one store
SchedResetHourly ==
    /\ spc = 0
    /\ current_hour_queries' = 0
    /\ hist' = [hist EXCEPT !.resets = 1,
                            !.hour_reset = [happened |-> TRUE, begun |-> hist.begun,
                                            returned |-> hist.returned]]
    /\ UNCHANGED <<thresholds, current_day_queries, current_day_cost,
                   current_month_cost, emergency_stop, alerts, lastOp, optimizerVars,
                   managerVars, pc, reg, arg, spc>>

\* the scheduler calls reset_monthly_counters: one store
SchedResetMonthly ==
    /\ spc = 0
    /\ current_month_cost' = 0
    /\ hist' = [hist EXCEPT !.resets = 1]
    /\ UNCHANGED <<thresholds, current_hour_queries, current_day_queries,
                   current_day_cost, emergency_stop, alerts, lastOp, optimizerVars,
                   managerVars, pc, reg, arg, spc>>

\* the scheduler calls reset_daily_counters: three stores, one per step
SchedResetDaily ==
    /\ current_day_queries' = IF spc = 0 THEN 0 ELSE current_day_queries
    /\ current_day_cost' = IF spc = 1 THEN 0 ELSE current_day_cost
    /\ emergency_stop' = IF spc = 2 THEN FALSE ELSE emergency_stop
    /\ spc' = (spc + 1) % 3
    /\ hist' = [hist EXCEPT !.resets = 1]
    /\ UNCHANGED <<thresholds, current_hour_queries, current_month_cost, alerts,
                   lastOp, optimizerVars, managerVars, pc, reg, arg>>

InitConc ==
    /\ thresholds = SmallThresholds
    /\ current_hour_queries = 0
    /\ current_day_queries = 0
    /\ current_day_cost = 0
    /\ current_month_cost = 0
    /\ emergency_stop = FALSE
    /\ alerts = <<>>
    /\ lastOp = Call("init", 0, 0, NoResult)
    /\ InitOptimizer
    /\ InitManager
    /\ InitCallers

NextConc ==
    \/ \E t \in Threads : BeginUpdate(t)
    \/ \E t \in Threads : Load(t)
    \/ \E t \in Threads : Store(t)
    \/ \E t \in Threads : CheckLimits(t)
    \/ SchedResetHourly
    \/ SchedResetMonthly
    \/ SchedResetDaily

SpecConc == InitConc /\ [][NextConc]_vars

----------------------------------------------------------------------------
(* Callers of one CostMonitor that each ask check_query_cost for approval and,
   when approved, run their query and call update_usage with the estimated cost.
   check_query_cost reads current_day_cost once and writes nothing; update_usage
   runs as the loads and stores above. *)

\* each caller makes at most MaxBudgetCalls calls of check_query_cost
MaxBudgetCalls == 2

\* the byte estimates of the callers: 100 MB and 200 MB
BudgetBytes == {1, 2}

CheckQuery_approves_all(t) ==
    \E b \in BudgetBytes :
        /\ pc[t] = Idle
        /\ hist.begun < MaxBudgetCalls * Cardinality(Threads)
        /\ lastOp' = Call("check_query_cost", b, 0, check_query_cost(b))
        /\ pc' = [pc EXCEPT ![t] = [phase |-> "load", i |-> 1]]
        /\ arg' = [arg EXCEPT ![t] = estimated_cost(b)]
        /\ hist' = [hist EXCEPT !.begun = @ + 1,
                                !.overlap = @ \/ \E u \in Threads \ {t} : pc[u] # Idle]
        /\ UNCHANGED <<thresholds, ledger, alerts, optimizerVars, managerVars, reg, spc>>

\* check_query_cost is called; on approval the caller goes on to update_usage
\* with the estimated cost, otherwise it drops the query
CheckQuery(t) ==
    \E b \in BudgetBytes :
        LET result == check_query_cost(b)
        IN  /\ pc[t] = Idle
            /\ hist.begun < MaxBudgetCalls * Cardinality(Threads)
            /\ lastOp' = Call("check_query_cost", b, 0, result)
            /\ pc' = [pc EXCEPT ![t] = IF result.approved
                                         THEN [phase |-> "load", i |-> 1] ELSE Idle]
            /\ arg' = [arg EXCEPT ![t] = IF result.approved
                                           THEN result.estimated_cost ELSE arg[t]]
            /\ hist' = [hist EXCEPT
                          !.begun = @ + 1,
                          !.overlap = @ \/ \E u \in Threads \ {t} : pc[u] # Idle]
            /\ UNCHANGED <<thresholds, ledger, alerts, optimizerVars, managerVars,
                           reg, spc>>

InitBudget == InitConc

NextBudget ==
    \/ \E t \in Threads : CheckQuery(t)
    \/ \E t \in Threads : Load(t)
    \/ \E t \in Threads : Store(t)
    \/ \E t \in Threads : CheckLimits(t)

SpecBudget == InitBudget /\ [][NextBudget]_vars

----------------------------------------------------------------------------
(* CostMonitor.get_cost_status, applied to a monitor in any usage state *)

\* the day and month costs of the monitors get_cost_status is applied to: 0..MaxStatusCost
MaxStatusCost == 40

\* limits whose 50%, 80% and 95% marks are whole money units (10, 16, 19 of 20
\* and 20, 32, 38 of 40)
StatusThresholds == [SmallThresholds EXCEPT !.monthly_limit = 40]

\* (cost / limit) * 100 >= p
percentage_at_least(cost, limit, p) == cost * 100 >= p * limit

get_cost_status_gt_95 ==
    LET daily(p) == percentage_at_least(current_day_cost, thresholds.daily_limit, p)
        monthly(p) ==
            percentage_at_least(current_month_cost, thresholds.monthly_limit, p)
        over(p) ==
            \/ current_day_cost * 100 > p * thresholds.daily_limit
            \/ current_month_cost * 100 > p * thresholds.monthly_limit
    IN  [status |-> IF over(95) THEN "exceeded"
                    ELSE IF daily(80) \/ monthly(80) THEN "critical"
                    ELSE IF daily(50) \/ monthly(50) THEN "warning"
                    ELSE "healthy",
         emergency_stop |-> emergency_stop]

\* the status and the flag of the dict get_cost_status returns
get_cost_status ==
    LET daily(p) == percentage_at_least(current_day_cost, thresholds.daily_limit, p)
        monthly(p) ==
            percentage_at_least(current_month_cost, thresholds.monthly_limit, p)
    IN  [status |-> IF daily(95) \/ monthly(95) THEN "exceeded"
                    ELSE IF daily(80) \/ monthly(80) THEN "critical"
                    ELSE IF daily(50) \/ monthly(50) THEN "warning"
                    ELSE "healthy",
         emergency_stop |-> emergency_stop]

GetCostStatus ==
    /\ lastOp' = Call("get_cost_status", 0, 0, get_cost_status)
    /\ UNCHANGED <<thresholds, ledger, alerts, optimizerVars, managerVars, callerVars>>

InitStatus ==
    /\ thresholds = StatusThresholds
    /\ current_hour_queries = 0
    /\ current_day_queries = 0
    /\ current_day_cost \in 0..MaxStatusCost
    /\ current_month_cost \in 0..MaxStatusCost
    /\ emergency_stop \in BOOLEAN
    /\ alerts = <<>>
    /\ lastOp = Call("init", 0, 0, NoResult)
    /\ InitOptimizer
    /\ InitManager
    /\ InitCallers

NextStatus == GetCostStatus

SpecStatus == InitStatus /\ [][NextStatus]_vars

----------------------------------------------------------------------------
(* The query rewriter: QueryOptimizer.optimize_query and
   OptimizedBigQueryManager._add_query_optimizations.  A query text is a sequence
   of fragments (the text is the fragments joined by spaces); a keyword test
   `KW in q.upper()` asks whether some fragment holds the keyword in any letter
   case, and str.replace matches a fragment by its exact letters. *)

\* the longest query text handed to the rewriter, in fragments
MaxTextLen == 3

Fragments ==
    {"SELECT *", "select a", "FROM t", "WHERE", "where", "x = 1", "date > d",
     "LIMIT 5", "GROUP BY a", "COUNT(DISTINCT", "CREATE OR REPLACE TABLE x AS"}

RECURSIVE TextsOfLen(_)
TextsOfLen(n) ==
    IF n = 0 THEN {<<>>}
    ELSE {Append(q, f) : q \in TextsOfLen(n - 1), f \in Fragments}

QueryTexts == UNION {TextsOfLen(n) : n \in 0..MaxTextLen}

RewriteTypes == {"general", "dashboard", "report"}

DATE_BOUND == "date >= DATE_SUB(CURRENT_DATE(), INTERVAL 30 DAY)"

\* the keywords of the rules that a fragment holds once upper-cased
Keywords(f) ==
    CASE f = "SELECT *" -> {"SELECT", "SELECT *"}
      [] f = "select a" -> {"SELECT"}
      [] f = "FROM t" -> {"FROM"}
      [] f \in {"WHERE", "where"} -> {"WHERE"}
      [] f \in {"date > d", DATE_BOUND} -> {"DATE"}
      [] f \in {"LIMIT 5", "LIMIT 10000"} -> {"LIMIT"}
      [] f = "GROUP BY a" -> {"GROUP BY"}
      [] f = "COUNT(DISTINCT" -> {"COUNT(DISTINCT"}
      [] OTHER -> {}

\* kw in query.upper()
in_upper(kw, query) == \E i \in 1..Len(query) : kw \in Keywords(query[i])

\* query.replace(old, new), for a fragment old
RECURSIVE replace(_, _, _)
replace(query, old, new) ==
    IF query = <<>> THEN <<>>
    ELSE (IF Head(query) = old THEN new ELSE <<Head(query)>>)
             \o replace(Tail(query), old, new)

\* _add_date_filter
add_date_filter(query) ==
    IF in_upper("WHERE", query)
    THEN replace(query, "WHERE", <<"WHERE", DATE_BOUND, "AND">>)
    ELSE Append(replace(query, "FROM", <<"FROM">>), "WHERE " \o DATE_BOUND)

\* the check of the rule add_date_filter
date_filter_check(query) == in_upper("WHERE", query) /\ ~in_upper("DATE", query)

\* the rule add_date_filter: its check, then its action
date_filter_rule(query) ==
    IF date_filter_check(query) THEN add_date_filter(query) ELSE query

\* _add_limit
add_limit(query) ==
    IF ~in_upper("LIMIT", query) THEN Append(query, "LIMIT 10000") ELSE query

\* the check of the rule add_limit
limit_check(query) ==
    /\ in_upper("SELECT", query)
    /\ ~in_upper("LIMIT", query)
    /\ ~in_upper("GROUP BY", query)

\* the rule add_limit
limit_rule(query) ==
    IF limit_check(query) THEN add_limit(query) ELSE query

\* the check of the rule optimize_select_star
select_star_check(query) == in_upper("SELECT *", query)

\* the rule optimize_select_star: _optimize_select_star returns the query as it is
select_star_rule(query) == query

\* _use_approx_functions
use_approx_functions(query) ==
    replace(replace(query, "COUNT(DISTINCT", <<"APPROX_COUNT_DISTINCT(">>),
            "APPROX_COUNT_DISTINCT((", <<"APPROX_COUNT_DISTINCT(">>)

\* the check of the rule use_approx_functions
approx_check(query) == in_upper("COUNT(DISTINCT", query)

\* the rule use_approx_functions
approx_rule(query) ==
    IF approx_check(query) THEN use_approx_functions(query) ELSE query

\* the descriptions of the rules, in the order optimize_query tries them
RuleDescriptions ==
    <<"Add date filter to reduce data scanned",
      "Add LIMIT to prevent scanning entire table",
      "Replace SELECT * with specific columns",
      "Use APPROX functions for better performance">>

\* optimize_query: the list of optimizations it returns, one description for each
\* rule whose check held of the text the earlier rules produced
optimizations_applied(query) ==
    LET dated == date_filter_rule(query)
        limited == limit_rule(dated)
        starred == select_star_rule(limited)
    IN  (IF date_filter_check(query) THEN <<RuleDescriptions[1]>> ELSE <<>>)
        \o (IF limit_check(dated) THEN <<RuleDescriptions[2]>> ELSE <<>>)
        \o (IF select_star_check(limited) THEN <<RuleDescriptions[3]>> ELSE <<>>)
        \o (IF approx_check(starred) THEN <<RuleDescriptions[4]>> ELSE <<>>)

\* _add_query_hints: the hint lines, then the query
add_query_hints(query, query_type) ==
    <<"-- @cache_ttl=" \o ToString(cache_ttl(query_type) * 300)>>
    \o (IF query_type = "dashboard" THEN <<"-- @priority=INTERACTIVE">>
        ELSE IF query_type = "report" THEN <<"-- @priority=BATCH">>
        ELSE <<>>)
    \o query

\* optimize_query: the text it returns
optimize_query(query, query_type) ==
    add_query_hints(
        approx_rule(select_star_rule(limit_rule(date_filter_rule(query)))),
        query_type)

\* _add_query_optimizations
add_query_optimizations(query) ==
    LET filtered ==
            IF in_upper("WHERE", query) /\ ~in_upper("DATE", query)
            THEN replace(query, "WHERE", <<"WHERE", DATE_BOUND, "AND">>)
            ELSE query
    IN  IF /\ in_upper("SELECT", filtered)
           /\ ~in_upper("LIMIT", filtered)
           /\ ~in_upper("GROUP BY", filtered)
        THEN Append(filtered, "LIMIT 10000")
        ELSE filtered

\* a call of the rewriter: the text and category it was given, the text it returned
Rewrite(op, query, query_type, output) ==
    [op |-> op, query |-> query, query_type |-> query_type, output |-> output,
     applied |-> <<>>]

\* optimize_query applied to the text and category in hand
OptimizeQuery ==
    /\ lastOp.op = "init"
    /\ lastOp' = [Rewrite("optimize_query", lastOp.query, lastOp.query_type,
                          optimize_query(lastOp.query, lastOp.query_type))
                      EXCEPT !.applied = optimizations_applied(lastOp.query)]
    /\ UNCHANGED <<thresholds, ledger, alerts, optimizerVars, managerVars, callerVars>>

\* optimize_query applied to the text the latest optimize_query returned
OptimizeQueryAgain ==
    /\ lastOp.op = "optimize_query"
    /\ lastOp' = [Rewrite("optimize_query_again", lastOp.output, lastOp.query_type,
                          optimize_query(lastOp.output, lastOp.query_type))
                      EXCEPT !.applied = optimizations_applied(lastOp.output)]
    /\ UNCHANGED <<thresholds, ledger, alerts, optimizerVars, managerVars, callerVars>>

\* _add_query_optimizations applied to the text in hand
AddQueryOptimizations ==
    /\ lastOp.op = "init"
    /\ lastOp' = Rewrite("_add_query_optimizations", lastOp.query, lastOp.query_type,
                         add_query_optimizations(lastOp.query))
    /\ UNCHANGED <<thresholds, ledger, alerts, optimizerVars, managerVars, callerVars>>

InitRewrite ==
    /\ thresholds = DefaultThresholds
    /\ current_hour_queries = 0
    /\ current_day_queries = 0
    /\ current_day_cost = 0
    /\ current_month_cost = 0
    /\ emergency_stop = FALSE
    /\ alerts = <<>>
    /\ \E query \in QueryTexts, query_type \in RewriteTypes :
           lastOp = Rewrite("init", query, query_type, query)
    /\ InitOptimizer
    /\ InitManager
    /\ InitCallers

NextRewrite ==
    \/ OptimizeQuery
    \/ OptimizeQueryAgain
    \/ AddQueryOptimizations

SpecRewrite == InitRewrite /\ [][NextRewrite]_vars

----------------------------------------------------------------------------
(* Claims about CostMonitor *)

\* C1 (as claimed): while emergency_stop is set, check_query_cost rejects every
\* request, whatever its bytes and cost.
C1_StopRejectsEveryRequest ==
    (lastOp.op = "check_query_cost" /\ lastOp.bytes >= 0 /\ emergency_stop) =>
        ~lastOp.result.approved

\* C2: an update_usage that leaves current_day_cost above daily_limit leaves
\* emergency_stop true; a true emergency_stop stays true through every call but
\* reset_daily_counters, which makes it false.
C2_StopPersistsUntilDailyReset ==
    [][/\ (lastOp'.op = "update_usage"
             /\ current_day_cost' > thresholds.daily_limit) => emergency_stop'
       /\ (emergency_stop /\ lastOp'.op # "reset_daily_counters") => emergency_stop'
       /\ lastOp'.op = "reset_daily_counters" => ~emergency_stop']_vars

C2_Witness ==
    /\ emergency_stop
    /\ current_day_cost > thresholds.daily_limit
    /\ lastOp.op = "reset_monthly_counters"

\* the thresholds of the claim's examples: hard limit $1.00, daily limit $5.00, and
\* a byte limit (200 GB) that admits the estimates the examples name
ExampleThresholds == [DefaultThresholds EXCEPT !.bytes_per_query_limit = 2000]

HasAlert(as, type) == \E i \in 1..Len(as) : as[i].type = type

\* C10: an update_usage sets emergency_stop and emits the limit's alert whenever,
\* after its increments, the daily query count, the daily cost or the monthly cost
\* exceeds its limit; exceeding only the hourly query limit emits one warning alert
\* and leaves emergency_stop as it was, as does exceeding no limit.
C10_CheckLimits ==
    [][lastOp'.op = "update_usage" =>
         LET dayq == current_day_queries' > thresholds.queries_per_day_limit
             dayc == current_day_cost' > thresholds.daily_limit
             monc == current_month_cost' > thresholds.monthly_limit
             hour == current_hour_queries' > thresholds.queries_per_hour_limit
         IN  /\ (dayq \/ dayc \/ monc) => emergency_stop'
             /\ dayq <=> HasAlert(alerts', "daily_query_limit")
             /\ dayc <=> HasAlert(alerts', "daily_cost_limit")
             /\ monc <=> HasAlert(alerts', "monthly_cost_limit")
             /\ hour <=> HasAlert(alerts', "hourly_query_limit")
             /\ ~(dayq \/ dayc \/ monc) => emergency_stop' = emergency_stop
             /\ (hour /\ ~(dayq \/ dayc \/ monc)) =>
                    alerts' = <<Alert("hourly_query_limit", "warning")>>]_vars

C10_Witness ==
    /\ lastOp.op = "update_usage"
    /\ alerts = <<Alert("hourly_query_limit", "warning")>>
    /\ ~emergency_stop

\* C11 (as claimed): reset_daily_counters called while current_month_cost exceeds
\* monthly_limit and emergency_stop is set leaves emergency_stop set.
C11_RolloverKeepsStopWhileBreached ==
    [][(/\ lastOp'.op = "reset_daily_counters"
        /\ emergency_stop
        /\ current_month_cost > thresholds.monthly_limit) => emergency_stop']_vars

\* C12: reset_hourly_counters changes only current_hour_queries, reset_monthly_counters
\* only current_month_cost, and reset_daily_counters only current_day_queries,
\* current_day_cost and emergency_stop; each leaves its own fields zero (false).
C12_ResetFrame ==
    [][/\ lastOp'.op = "reset_hourly_counters" =>
              /\ current_hour_queries' = 0
              /\ UNCHANGED <<thresholds, current_day_queries, current_day_cost,
                             current_month_cost, emergency_stop, alerts>>
       /\ lastOp'.op = "reset_monthly_counters" =>
              /\ current_month_cost' = 0
              /\ UNCHANGED <<thresholds, current_hour_queries, current_day_queries,
                             current_day_cost, emergency_stop, alerts>>
       /\ lastOp'.op = "reset_daily_counters" =>
              /\ current_day_queries' = 0
              /\ current_day_cost' = 0
              /\ emergency_stop' = FALSE
              /\ UNCHANGED <<thresholds, current_hour_queries, current_month_cost,
                             alerts>>]_vars

C12_Witness ==
    /\ lastOp.op = "reset_hourly_counters"
    /\ current_day_queries > 0
    /\ current_day_cost > 0
    /\ current_month_cost > 0
    /\ emergency_stop

\* C13: check_query_cost, approving or rejecting, leaves the four usage counters
\* and emergency_stop as they were.
C13_CheckQueryCostReadsOnly ==
    [][lastOp'.op = "check_query_cost" => UNCHANGED ledger]_vars

C13_Witness ==
    /\ lastOp.op = "check_query_cost"
    /\ ~lastOp.result.approved
    /\ lastOp.result.reason = "daily_limit"
    /\ current_day_queries > 0
    /\ current_day_cost > 0

StatusBand(num, den) ==
    IF num * 100 < 50 * den THEN "healthy"
    ELSE IF num * 100 < 80 * den THEN "warning"
    ELSE IF num * 100 < 95 * den THEN "critical"
    ELSE "exceeded"

\* C15: get_cost_status reports the band of the larger of the daily and the monthly
\* percentage used: below 50% healthy, from 50% to below 80% warning, from 80% to
\* below 95% critical, 95% or more exceeded.
C15_StatusBands ==
    lastOp.op = "get_cost_status" =>
        LET daily_larger == current_day_cost * thresholds.monthly_limit
                               >= current_month_cost * thresholds.daily_limit
        IN  lastOp.result.status =
                IF daily_larger
                THEN StatusBand(current_day_cost, thresholds.daily_limit)
                ELSE StatusBand(current_month_cost, thresholds.monthly_limit)

C15_Witness ==
    /\ lastOp.op = "get_cost_status"
    /\ lastOp.result.status = "exceeded"
    /\ current_month_cost * 100 = 95 * thresholds.monthly_limit
    /\ current_day_cost * 100 = 80 * thresholds.daily_limit

\* C22 (as claimed): a negative byte count yields a zero-cost estimate and is never
\* approved; the estimated cost is never negative.
C22_NegativeBytesRejected ==
    (lastOp.op = "check_query_cost" /\ lastOp.bytes < 0) =>
        /\ ~lastOp.result.approved
        /\ lastOp.result.estimated_cost = 0

\* C27: with the default CostThresholds no approval carries a warning: every byte
\* estimate whose cost exceeds query_cost_warning also exceeds
\* bytes_per_query_limit and is rejected, and every approved estimate costs at most
\* $0.0005.
C27_DefaultsNeverWarn ==
    (thresholds = DefaultThresholds /\ lastOp.op = "check_query_cost") =>
        /\ lastOp.result.approved =>
               /\ ~lastOp.result.warning
               /\ lastOp.result.severity = "info"
               /\ lastOp.result.estimated_cost <= 5
        /\ lastOp.bytes * PRICE_PER_TB > thresholds.query_cost_warning =>
               /\ lastOp.bytes > thresholds.bytes_per_query_limit
               /\ ~lastOp.result.approved

C27_Witness ==
    /\ thresholds = DefaultThresholds
    /\ lastOp.op = "check_query_cost"
    /\ lastOp.bytes * PRICE_PER_TB > thresholds.query_cost_warning
    /\ lastOp.bytes * PRICE_PER_TB <= thresholds.query_cost_limit
    /\ lastOp.result.reason = "bytes_per_query_limit"

\* C30 (as claimed): in every state reached by update_usage calls with non-negative
\* costs and any resets, current_hour_queries <= current_day_queries and
\* current_day_cost <= current_month_cost.
C30_ShorterPeriodWithinEnclosing ==
    /\ current_hour_queries <= current_day_queries
    /\ current_day_cost <= current_month_cost

\* C30 (as amended): every call but reset_daily_counters keeps
\* current_hour_queries <= current_day_queries, and every call but
\* reset_monthly_counters keeps current_day_cost <= current_month_cost.
C30_OnlyEnclosingResetBreaks ==
    [][/\ (/\ current_hour_queries <= current_day_queries
           /\ lastOp'.op # "reset_daily_counters") =>
              current_hour_queries' <= current_day_queries'
       /\ (/\ current_day_cost <= current_month_cost
           /\ lastOp'.op # "reset_monthly_counters") =>
              current_day_cost' <= current_month_cost']_vars

C30_Witness ==
    /\ lastOp.op = "update_usage"
    /\ lastOp.cost > 0
    /\ current_hour_queries > 1
    /\ current_hour_queries < current_day_queries
    /\ current_day_cost > 0
    /\ current_day_cost < current_month_cost

----------------------------------------------------------------------------
(* Claims about the coordinator *)

CoordinatorOps == {"get_cached_or_execute", "execute_query_with_cost_control"}

\* C4 (as claimed): on either execution path the executor is invoked only for a
\* request whose byte estimate the ledger pre-check approves.
C4_ExecutorOnlyAfterApproval ==
    (lastOp.op \in CoordinatorOps /\ lastOp.executed) =>
        check_query_cost(lastOp.bytes).approved

\* C5: when the executor fails, the call raises the executor's error, no usage
\* counter of the ledger or of the manager changes, no cost record is appended, and
\* no cache entry is created or altered (only the lookup's eviction of the
\* request's own expired entry may have removed one).
C5_ExecutorFailureLeavesNoTrace ==
    [][(lastOp'.op \in CoordinatorOps /\ lastOp'.outcome = "fail" /\ now' = now) =>
         /\ lastOp'.raised = "ExecutorError"
         /\ lastOp'.returned = "nothing"
         /\ ledger' = ledger
         /\ managerVars' = managerVars
         /\ \A k \in DOMAIN cache' : k \in DOMAIN cache /\ cache'[k] = cache[k]
         /\ \A k \in DOMAIN cache \ DOMAIN cache' :
                /\ k = get_cache_key(lastOp'.query, lastOp'.params)
                /\ now >= cache[k].expires]_vars

C5_Witness ==
    /\ lastOp.op = "get_cached_or_execute"
    /\ lastOp.outcome = "fail"
    /\ miss_count > 0
    /\ get_cache_key(lastOp.query, lastOp.params) \notin DOMAIN cache

\* C6 (as claimed): a get_cached_or_execute for a key that holds an entry stored
\* by an earlier successful call and not yet expired returns that entry's payload,
\* does not invoke the executor and leaves the ledger alone, whatever the payload.
C6_RepeatCallServedFromCache ==
    [][(/\ lastOp'.op = "get_cached_or_execute"
        /\ now' = now
        /\ Serializable(lastOp'.params)
        /\ get_cache_key(lastOp'.query, lastOp'.params) \in DOMAIN cache
        /\ now < cache[get_cache_key(lastOp'.query, lastOp'.params)].expires) =>
         /\ ~lastOp'.executed
         /\ lastOp'.returned = cache[get_cache_key(lastOp'.query, lastOp'.params)].data
         /\ ledger' = ledger]_vars

\* C9 (as claimed): QueryCache.get, set and clear_expired never raise.
C9_CacheNeverRaises ==
    lastOp.op \in {"get", "set", "clear_expired"} => lastOp.raised = "none"

\* C21 (as claimed): when the dry run cannot produce an estimate,
\* execute_query_with_cost_control does not run the query, changes no counter and
\* raises an estimation failure, which is neither the byte-limit nor the daily
\* query-limit rejection.
C21_EstimationFailureReported ==
    [][(/\ lastOp'.op = "execute_query_with_cost_control"
        /\ lastOp'.dry_run = "error") =>
          /\ ~lastOp'.executed
          /\ UNCHANGED managerVars
          /\ lastOp'.raised \notin {"none", "ByteLimit", "DailyQueryLimit"}]_vars

\* C25: executed queries are accounted exactly once: the number of rows in the
\* cost-tracking store equals queries_today, and both equal the number of
\* executions that returned their rows.
C25_CountedIffRecorded ==
    /\ Len(cost_records) = queries_today
    /\ (lastOp.op = "execute_query_with_cost_control" /\ lastOp.outcome = "rows") =>
           (lastOp.returned = "rows" /\ queries_today > 0)

\* C28: queries_today is incremented only by a successful execution, by one; no
\* operation decreases it; it never exceeds MAX_QUERIES_PER_DAY; and at the limit
\* every call is rejected before the estimate and the execution.
C28_DailyCountMonotoneAndCapped ==
    [][/\ queries_today' >= queries_today
       /\ queries_today' <= queries_today + 1
       /\ queries_today' <= MAX_QUERIES_PER_DAY
       /\ queries_today' = queries_today + 1 =>
              /\ lastOp'.op = "execute_query_with_cost_control"
              /\ lastOp'.executed
              /\ lastOp'.raised = "none"
              /\ lastOp'.returned = "rows"
       /\ (/\ queries_today >= MAX_QUERIES_PER_DAY
           /\ lastOp'.op = "execute_query_with_cost_control") =>
              /\ lastOp'.raised = "DailyQueryLimit"
              /\ lastOp'.dry_run = "none"
              /\ ~lastOp'.executed
              /\ UNCHANGED managerVars]_vars

C28_Witness ==
    /\ queries_today = MAX_QUERIES_PER_DAY
    /\ lastOp.op = "execute_query_with_cost_control"
    /\ lastOp.raised = "DailyQueryLimit"

----------------------------------------------------------------------------
(* Claims about QueryCache *)

\* C18: QueryCache.get called right after set with the same query and parameters
\* returns the payload that was set and counts a hit; QueryCache.get of an entry
\* whose ttl has elapsed (now at or past its expiry) returns None, counts a miss and
\* removes that entry, leaving every other entry as it was.
C18_GetAfterSet ==
    [][/\ (/\ lastOp.op = "set"
           /\ lastOp.raised = "none"
           /\ lastOp'.op = "get"
           /\ lastOp'.query = lastOp.query
           /\ lastOp'.params = lastOp.params
           /\ now = cache[get_cache_key(lastOp.query, lastOp.params)].cached_at) =>
              /\ lastOp'.raised = "none"
              /\ lastOp'.returned = lastOp.outcome
              /\ hit_count' = hit_count + 1
              /\ cache' = cache
       /\ (/\ hit_count' + miss_count' # hit_count + miss_count
           /\ get_cache_key(lastOp'.query, lastOp'.params) \in DOMAIN cache
           /\ now >= cache[get_cache_key(lastOp'.query, lastOp'.params)].expires) =>
              LET key == get_cache_key(lastOp'.query, lastOp'.params)
              IN  /\ lastOp'.returned = "None"
                  /\ miss_count' = miss_count + 1
                  /\ hit_count' = hit_count
                  /\ DOMAIN cache' = DOMAIN cache \ {key}
                  /\ \A k \in DOMAIN cache' : cache'[k] = cache[k]]_vars

C18_Witness ==
    /\ lastOp.op = "get"
    /\ lastOp.outcome = "expired"
    /\ lastOp.returned = "None"
    /\ get_cache_key(lastOp.query, lastOp.params) \notin DOMAIN cache
    /\ \E k \in DOMAIN cache : cache[k].data = "rows"

\* C19: clear_expired removes exactly the entries whose expiry is at or before now
\* and keeps, unaltered, every entry whose expiry is in the future; the entries it
\* keeps are exactly those QueryCache.get would report a hit for at that instant.
C19_ClearExpiredExact ==
    [][(lastOp'.op = "clear_expired" /\ now' = now) =>
          /\ DOMAIN cache' = {k \in DOMAIN cache : cache[k].expires > now}
          /\ \A k \in DOMAIN cache' : cache'[k] = cache[k]
          /\ \A k \in DOMAIN cache :
                 k \in DOMAIN cache' <=> cache_get(cache, now, k).hit]_vars

C19_Witness ==
    /\ lastOp.op = "clear_expired"
    /\ lastOp.outcome = "cleared"
    /\ \E k \in DOMAIN cache : cache[k].cached_at = 0 /\ cache[k].expires > now

\* the name/value pairs of a parameter map (None holds none)
Pairs(params) == {or_empty(params)[i] : i \in 1..Len(or_empty(params))}

\* C20 (as claimed): two requests with the same query text and the same set of
\* parameter name/value pairs are given the same key, whatever the insertion
\* order; two requests that differ in query text or in a parameter name or value
\* are given different pre-digest inputs.
C20_KeyDeterminedByQueryAndParams ==
    (lastOp.op = "get_cache_key" /\ lastOp.raised = "none") =>
        (lastOp.key = lastOp.other_key <=>
            /\ lastOp.query = lastOp.other_query
            /\ Pairs(lastOp.params) = Pairs(lastOp.other_params))

\* C23 (as claimed): set stores the entry with expiry now + ttl for every ttl the
\* caller passes, 0 included; the default TTL is used only when no ttl is passed.
C23_SetExpiryIsNowPlusTtl ==
    (lastOp.op = "set" /\ lastOp.raised = "none") =>
        LET key == get_cache_key(lastOp.query, lastOp.params)
        IN  /\ key \in DOMAIN cache
            /\ cache[key].data = lastOp.outcome
            /\ cache[key].expires =
                   cache[key].cached_at
                       + (IF lastOp.ttl = <<>> THEN DEFAULT_TTL ELSE lastOp.ttl[1])

----------------------------------------------------------------------------
(* Claims about concurrent callers of CostMonitor *)

AllReturned == hist.returned = hist.begun /\ \A t \in Threads : pc[t] = Idle

\* C7 (as claimed): with callers invoking update_usage concurrently and no reset,
\* once the N calls have returned the two query counters have each grown by N
\* and the two cost counters by the sum of the N costs.
C7_NoLostIncrement ==
    (AllReturned /\ hist.resets = 0) =>
        /\ current_hour_queries = hist.begun
        /\ current_day_queries = hist.begun
        /\ current_day_cost = hist.cost_total
        /\ current_month_cost = hist.cost_total

\* C8 (as claimed): a reset concurrent with an in-flight update_usage takes effect
\* before or after it.  For the hourly counter, with no two update_usage calls
\* overlapping: once every call has returned, the counter counts the calls that
\* follow the latest reset_hourly_counters, which are at least those begun after
\* it and at most those that had not returned before it.
C8_ResetLinearizable ==
    (AllReturned /\ hist.hour_reset.happened /\ ~hist.overlap) =>
        /\ current_hour_queries >= hist.begun - hist.hour_reset.begun
        /\ current_hour_queries <= hist.begun - hist.hour_reset.returned

\* C26 (as claimed): in every interleaving of callers that each call
\* check_query_cost and, if approved, update_usage with the estimated cost,
\* current_day_cost never exceeds daily_limit and the daily-cost emergency stop is
\* never triggered.
C26_ApprovedNeverOverBudget ==
    /\ current_day_cost <= thresholds.daily_limit
    /\ \A i \in 1..Len(alerts) : alerts[i].type # "daily_cost_limit"

\* C26 (as amended): the same, for the interleavings in which no caller's
\* check_query_cost falls between another caller's check_query_cost and the
\* return of that caller's update_usage.
C26_NoOverlapNeverOverBudget ==
    ~hist.overlap =>
        /\ current_day_cost <= thresholds.daily_limit
        /\ \A i \in 1..Len(alerts) : alerts[i].type # "daily_cost_limit"

C26_Witness ==
    /\ ~hist.overlap
    /\ hist.returned >= 2
    /\ current_day_cost = thresholds.daily_limit
    /\ lastOp.op = "check_query_cost"
    /\ lastOp.result.reason = "daily_limit"

----------------------------------------------------------------------------
(* Claims about the query rewriter *)

\* C16 (as claimed): optimize_query applied to the text optimize_query returned,
\* with the same category, returns that text unchanged.
C16_OptimizeQueryIdempotent ==
    lastOp.op = "optimize_query_again" => lastOp.output = lastOp.query

\* the text holds the injected 30-day lower bound on date
HasDateBound(query) ==
    \E i \in 1..Len(query) : query[i] \in {DATE_BOUND, "WHERE " \o DATE_BOUND}

\* C17 (as claimed): for a query with a WHERE keyword in any letter case and no
\* date bound, the text returned by optimize_query and by _add_query_optimizations
\* holds the injected 30-day bound; for a query that already holds a date bound the
\* date-filter rule returns the text unchanged.
C17_DateBoundInjected ==
    lastOp.op \in {"optimize_query", "_add_query_optimizations"} =>
        /\ (in_upper("WHERE", lastOp.query) /\ ~in_upper("DATE", lastOp.query)) =>
               HasDateBound(lastOp.output)
        /\ in_upper("DATE", lastOp.query) =>
               date_filter_rule(lastOp.query) = lastOp.query


\* the statements of the texts: a plain selection starts with its SELECT, a
\* CREATE OR REPLACE TABLE ... AS SELECT with its CREATE clause and then the SELECT
SelectFragments == {"SELECT *", "select a"}

PlainSelection(query) == query # <<>> /\ Head(query) \in SelectFragments

CreateTableAsSelect(query) ==
    /\ Len(query) >= 2
    /\ query[1] = "CREATE OR REPLACE TABLE x AS"
    /\ query[2] \in SelectFragments

\* C24: the rewriter appends LIMIT 10000 exactly when the statement is a plain
\* selection with no GROUP BY and no LIMIT of its own; a CREATE OR REPLACE TABLE
\* ... AS SELECT is never given a row cap.
C24_RowCapOnlyOnPlainSelection ==
    (/\ lastOp.op \in {"optimize_query", "_add_query_optimizations"}
     /\ (PlainSelection(lastOp.query) \/ CreateTableAsSelect(lastOp.query))) =>
        (lastOp.output[Len(lastOp.output)] = "LIMIT 10000"
            <=> /\ PlainSelection(lastOp.query)
                /\ ~in_upper("GROUP BY", lastOp.query)
                /\ ~in_upper("LIMIT", lastOp.query))

\* is a a subsequence of b
RECURSIVE Subsequence(_, _)
Subsequence(a, b) ==
    IF a = <<>> THEN TRUE
    ELSE IF b = <<>> THEN FALSE
    ELSE IF Head(a) = Head(b) THEN Subsequence(Tail(a), Tail(b))
    ELSE Subsequence(a, Tail(b))

Listed(description, applied) == \E i \in 1..Len(applied) : applied[i] = description

\* C29: the list of optimizations optimize_query returns is a subsequence of the
\* rule order, and every transforming rule it lists (date filter, row cap,
\* approximate distinct) changed the text it was given.
C29_ListedRulesChangedText ==
    (lastOp.op = "optimize_query") =>
        LET dated == date_filter_rule(lastOp.query)
            limited == limit_rule(dated)
            starred == select_star_rule(limited)
        IN  /\ Subsequence(lastOp.applied, RuleDescriptions)
            /\ Listed(RuleDescriptions[1], lastOp.applied) => dated # lastOp.query
            /\ Listed(RuleDescriptions[2], lastOp.applied) => limited # dated
            /\ Listed(RuleDescriptions[4], lastOp.applied) => approx_rule(starred) # starred

====
